---- MODULE Spec2Model ----
(***************************************************************************)
(* Model of skutil/feature_selection/select.py: the collinearity reducer   *)
(* filter_collinearity(c, threshold) and the MulticollinearityFilterer     *)
(* adapter (fit_transform / transform) that applies its drop list.         *)
(*                                                                         *)
(* Correlations are integer levels 1..MaxCorr (exact rationals stand for   *)
(* the means), NaN is the null entry.  A DataFrame is a record of its row  *)
(* keys (index), its column keys (columns) and its cells (data).           *)
(***************************************************************************)
EXTENDS Integers, Sequences, FiniteSets, TLC

\* ---------------------------------------------------------------- bounds
MaxFeatures == 3
MaxCorr == 2

\* ------------------------------------------------------------- constants
NaN == -1
FeatureNames == <<"A", "B", "C", "D", "E", "F">>
Corrs == 1..MaxCorr
Cells == Corrs \cup {NaN}
Thresholds == 1..MaxCorr

VARIABLES
    stable,         \* whether the build's sort routine is a stable one
    X,              \* the caller's correlation matrix as first supplied
    c,              \* the working matrix, mutated in place
    threshold,
    drops, macor, corrz,
    finished, i, nm, max_cor, other_col_nm, mn_1, mn_2, drop_nm,
    pc, err,
    call,           \* which call of filter_collinearity is running
    first,          \* the result of the first call, kept by the caller
    self,           \* the MulticollinearityFilterer
    out             \* what transform returned

vars == <<stable, X, c, threshold, drops, macor, corrz, finished, i, nm, max_cor,
          other_col_nm, mn_1, mn_2, drop_nm, pc, err, call, first, self, out>>

locals == <<finished, i, nm, max_cor, other_col_nm, mn_1, mn_2, drop_nm>>

\* ------------------------------------------------------------- helpers
Range(a, b) == [k \in 1..(b - a + 1) |-> FeatureNames[a + k - 1]]

ToSet(s) == {s[k] : k \in 1..Len(s)}

Last(s) == s[Len(s)]

\* pd.isnull on a cell
IsNull(v) == v = NaN

\* a comparison with NaN is false
Lt(a, b) == ~IsNull(a) /\ ~IsNull(b) /\ a < b

\* Index.drop / list without one key, order kept
Without(s, key) == SelectSeq(s, LAMBDA e : e # key)

\* c[col].drop(col): the row keys of column col without the self entry
SeriesNames(df, col) == Without(df.index, col)

\* a mean is the exact rational <<sum, count>>; count 0 is NaN
NullMean(m) == m[2] = 0
MeanGt(a, b) == a[1] * b[2] > b[1] * a[2]
MeanEq(a, b) == a[1] * b[2] = b[1] * a[2]

RECURSIVE SumGood(_, _, _)
SumGood(df, names, col) ==
    IF names = <<>> THEN <<0, 0>>
    ELSE LET v == df.data[<<Head(names), col>>]
             r == SumGood(df, Tail(names), col)
         IN IF IsNull(v) THEN r ELSE <<r[1] + v, r[2] + 1>>

\* np.nanmean(c[col].drop(col))
NanMean(df, col) == SumGood(df, SeriesNames(df, col), col)

\* the smaller of the two means recorded instead of the larger
MinimumForMaximum(a, b) ==
    IF NullMean(a) \/ NullMean(b) THEN <<0, 0>>
    ELSE IF MeanGt(a, b) THEN b ELSE a

\* np.maximum(mn_1, mn_2): NaN if either is NaN
Maximum(a, b) ==
    IF NullMean(a) \/ NullMean(b) THEN <<0, 0>>
    ELSE IF MeanGt(a, b) THEN a ELSE b

\* sort_values(na_position='first') of c[col].drop(col), read at its last
\* position (this_col_nms[-1]).  Nulls go first in their original order and
\* the rest ascend; among equal values a stable routine leaves the later row
\* last, and the routine of a build that is not stable may leave the earlier.
LastName(df, col) ==
    LET names == SeriesNames(df, col)
        good  == {k \in 1..Len(names) : ~IsNull(df.data[<<names[k], col>>])}
        top   == {g \in good : \A h \in good :
                     df.data[<<names[h], col>>] <= df.data[<<names[g], col>>]}
    IN IF good = {} THEN Last(names)
       ELSE IF stable THEN names[CHOOSE g \in top : \A h \in top : h <= g]
       ELSE names[CHOOSE g \in top : \A h \in top : g <= h]

\* DataFrame.drop(key, axis=1) then DataFrame.drop(key, axis=0)
DropBoth(df, key) ==
    LET idx  == Without(df.index, key)
        cols == Without(df.columns, key)
    IN [index |-> idx, columns |-> cols,
        data |-> [p \in ToSet(idx) \X ToSet(cols) |-> df.data[p]]]

\* ------------------------------------------------------------- inputs
Pos(name) == CHOOSE k \in 1..Len(FeatureNames) : FeatureNames[k] = name

\* the pairs of the first n features
Pairs(n) == {q \in (1..n) \X (1..n) : q[1] < q[2]}

\* the symmetric absolute-correlation matrix of the first n features with
\* the cell u[q] for every pair q; the diagonal (never read) is the top level
SymMatrix(n, u) ==
    [p \in ToSet(Range(1, n)) \X ToSet(Range(1, n)) |->
        IF p[1] = p[2] THEN MaxCorr
        ELSE IF Pos(p[1]) < Pos(p[2]) THEN u[<<Pos(p[1]), Pos(p[2])>>]
        ELSE u[<<Pos(p[2]), Pos(p[1])>>]]

Frame(idx, cols, m) ==
    [index |-> idx, columns |-> cols,
     data |-> [p \in ToSet(idx) \X ToSet(cols) |-> m[p]]]

\* the same cells with the last column filed under a label that is no row key
Relabelled(n, m) ==
    LET idx  == Range(1, n)
        cols == IF n = 0 THEN <<>> ELSE Append(Range(1, n - 1), "Z")
    IN [index |-> idx, columns |-> cols,
        data |-> [p \in ToSet(idx) \X ToSet(cols) |->
                     IF p[2] = "Z" THEN m[<<p[1], FeatureNames[n]>>] ELSE m[p]]]

\* the correlation matrix of the table with its last column repeated at the
\* end: the copy correlates with every column as the original does, and with
\* the original at the top level
Repeated(n, m) ==
    LET keys == Range(1, n + 1)
        orig(x) == IF x = FeatureNames[n + 1] THEN FeatureNames[n] ELSE x
    IN [index |-> keys, columns |-> keys,
        data |-> [p \in ToSet(keys) \X ToSet(keys) |-> m[<<orig(p[1]), orig(p[2])>>]]]

\* what a caller may pass: the square symmetric matrix, the matrix short of
\* its last row or of its last column, and the relabelled one
Frames(n, m) ==
    {Frame(Range(1, n), Range(1, n), m),
     Frame(Range(1, n - 1), Range(1, n), m),
     Frame(Range(1, n), Range(1, n - 1), m),
     Relabelled(n, m)}

NoMean == <<0, 0>>

Init ==
    /\ stable \in BOOLEAN
    /\ \E n \in 0..MaxFeatures : \E u \in [Pairs(n) -> Cells] :
             LET m == SymMatrix(n, u)
             IN X \in Frames(n, m) \cup (IF n = 0 THEN {} ELSE {Repeated(n, m)})
    /\ c = X
    /\ threshold \in Thresholds
    /\ drops = <<>> /\ macor = <<>> /\ corrz = <<>>
    /\ finished = FALSE /\ i = 0
    /\ nm = "None" /\ other_col_nm = "None" /\ drop_nm = "None"
    /\ max_cor = NaN /\ mn_1 = NoMean /\ mn_2 = NoMean
    /\ pc = "call" /\ err = "None"
    /\ call = "first"
    /\ first = [drops |-> <<>>, threshold |-> threshold]
    /\ self = [fitted |-> FALSE, as_df |-> TRUE, drop_ |-> <<>>]
    /\ out = [kind |-> "None", columns |-> <<>>]

\* ------------------------------------------------ filter_collinearity
\* the shape test catching only a matrix with too many rows
TooManyRows(df) == Len(df.index) > Len(df.columns)

\* line 254: c.shape[0] != c.shape[1]
NotSquare(df) == Len(df.index) # Len(df.columns)

\* lines 254-260: the shape test, then the three result lists
Call ==
    /\ pc = "call"
    /\ IF NotSquare(c)
       THEN /\ pc' = "raised" /\ err' = "ValueError"
            /\ UNCHANGED <<drops, macor, corrz, finished>>
       ELSE /\ pc' = "while" /\ err' = err
            /\ drops' = <<>> /\ macor' = <<>> /\ corrz' = <<>>
            /\ finished' = FALSE
    /\ UNCHANGED <<stable, X, c, threshold, i, nm, max_cor, other_col_nm, mn_1, mn_2,
                   drop_nm, call, first, self, out>>

\* line 264: while not finished; entering the body starts the for loop
While ==
    /\ pc \in {"while", "break"}
    /\ IF finished THEN pc' = "return" /\ i' = i
       ELSE pc' = "for" /\ i' = 1
    /\ UNCHANGED <<stable, X, c, threshold, drops, macor, corrz, finished, nm, max_cor,
                   other_col_nm, mn_1, mn_2, drop_nm, err, call, first, self, out>>

\* line 267: the columns are used up, the for loop ends without a break
ForExhausted ==
    /\ pc = "for"
    /\ i > Len(c.columns)
    /\ pc' = "while"
    /\ UNCHANGED <<stable, X, c, threshold, drops, macor, corrz, locals, err, call,
                   first, self, out>>

\* line 268: c[nm].drop(nm) when nm is no row key
ForKeyError ==
    /\ pc = "for"
    /\ i <= Len(c.columns)
    /\ c.columns[i] \notin ToSet(c.index)
    /\ nm' = c.columns[i]
    /\ pc' = "raised" /\ err' = "KeyError"
    /\ UNCHANGED <<stable, X, c, threshold, drops, macor, corrz, finished, i, max_cor,
                   other_col_nm, mn_1, mn_2, drop_nm, call, first, self, out>>

\* line 274: this_col[-1] on an empty column
ForIndexError ==
    /\ pc = "for"
    /\ i <= Len(c.columns)
    /\ c.columns[i] \in ToSet(c.index)
    /\ SeriesNames(c, c.columns[i]) = <<>>
    /\ nm' = c.columns[i]
    /\ pc' = "raised" /\ err' = "IndexError"
    /\ UNCHANGED <<stable, X, c, threshold, drops, macor, corrz, finished, i, max_cor,
                   other_col_nm, mn_1, mn_2, drop_nm, call, first, self, out>>

\* the comparison with the threshold turned around
SkipsAbove(mx, n) == IsNull(mx) \/ Lt(threshold, mx) \/ n = 1

\* the null test left out
SkipsNoNullTest(mx, n) == Lt(mx, threshold) \/ n = 1

\* line 275: the test that sends control to the next column
Skips(mx, n) == IsNull(mx) \/ Lt(mx, threshold) \/ n = 1

\* every column that triggers nothing taken for the last one
AnyColumn(k, df) == k <= Len(df.columns)

\* line 276: i == c.columns.shape[0] - 1
LastColumn(k, df) == k = Len(df.columns)

\* lines 268-280: the column triggers nothing
ForContinue ==
    /\ pc = "for"
    /\ i <= Len(c.columns)
    /\ c.columns[i] \in ToSet(c.index)
    /\ SeriesNames(c, c.columns[i]) # <<>>
    /\ LET last == LastName(c, c.columns[i]) IN
          LET mx == c.data[<<last, c.columns[i]>>]
          IN /\ Skips(mx, Len(SeriesNames(c, c.columns[i])))
             /\ max_cor' = mx
    /\ nm' = c.columns[i]
    /\ finished' = IF LastColumn(i, c) THEN TRUE ELSE finished
    /\ i' = i + 1
    /\ UNCHANGED <<stable, X, c, threshold, drops, macor, corrz, other_col_nm, mn_1,
                   mn_2, drop_nm, pc, err, call, first, self, out>>

\* the visited feature dropped unless the partner's mean is strictly larger
DropNameTieVisited(n, other, m1, m2) ==
    IF NullMean(m1) THEN other
    ELSE IF NullMean(m2) THEN n
    ELSE IF MeanGt(m2, m1) THEN other ELSE n

\* lines 295-300: which member of the pair goes
DropName(n, other, m1, m2) ==
    IF NullMean(m1) THEN other
    ELSE IF NullMean(m2) THEN n
    ELSE IF MeanGt(m1, m2) THEN n ELSE other

\* the record's two feature fields filled the wrong way round
MCFTupleSwapped(x, y, corr, mac) ==
    [feature_x |-> y, feature_y |-> x, abs_corr |-> corr, mac |-> mac]

\* lines 309-314
MCFTuple(x, y, corr, mac) ==
    [feature_x |-> x, feature_y |-> y, abs_corr |-> corr, mac |-> mac]

\* line 285: c[other_col_nm] when the partner is no column key
ForOtherKeyError ==
    /\ pc = "for"
    /\ i <= Len(c.columns)
    /\ c.columns[i] \in ToSet(c.index)
    /\ SeriesNames(c, c.columns[i]) # <<>>
    /\ LET last == LastName(c, c.columns[i]) IN
          LET mx == c.data[<<last, c.columns[i]>>]
          IN /\ ~Skips(mx, Len(SeriesNames(c, c.columns[i])))
             /\ last \notin ToSet(c.columns)
             /\ max_cor' = mx
             /\ other_col_nm' = last
    /\ nm' = c.columns[i]
    /\ pc' = "raised" /\ err' = "KeyError"
    /\ UNCHANGED <<stable, X, c, threshold, drops, macor, corrz, finished, i, mn_1,
                   mn_2, drop_nm, call, first, self, out>>

\* lines 282-318: a violating pair; one member leaves the matrix, then break
ForDrop ==
    /\ pc = "for"
    /\ i <= Len(c.columns)
    /\ c.columns[i] \in ToSet(c.index)
    /\ SeriesNames(c, c.columns[i]) # <<>>
    /\ LET last == LastName(c, c.columns[i]) IN
          LET n  == c.columns[i]
              mx == c.data[<<last, n>>]
              m1 == NanMean(c, n)
              m2 == NanMean(c, last)
              d  == DropName(n, last, m1, m2)
              mac == Maximum(m1, m2)
          IN /\ ~Skips(mx, Len(SeriesNames(c, n)))
             /\ last \in ToSet(c.columns)
             /\ max_cor' = mx
             /\ other_col_nm' = last
             /\ mn_1' = m1 /\ mn_2' = m2
             /\ drop_nm' = d
             /\ c' = DropBoth(c, d)
             /\ drops' = Append(drops, d)
             /\ macor' = Append(macor, mac)
             /\ corrz' = Append(corrz,
                    MCFTuple(d, IF n # d THEN n ELSE last, mx, mac))
    /\ nm' = c.columns[i]
    /\ pc' = "break"
    /\ UNCHANGED <<stable, X, threshold, finished, i, err, call, first, self, out>>

\* -------------------------------------------------------- the caller
\* a new activation of filter_collinearity starts with no local bound
FreshLocals ==
    /\ finished' = FALSE /\ i' = 0
    /\ nm' = "None" /\ other_col_nm' = "None" /\ drop_nm' = "None"
    /\ max_cor' = NaN /\ mn_1' = NoMean /\ mn_2' = NoMean

\* the caller runs the reducer again, same threshold, on the matrix the
\* first call left behind (the input restricted to the survivors)
Rerun ==
    /\ pc = "return" /\ call = "first"
    /\ first' = [drops |-> drops, threshold |-> threshold]
    /\ call' = "again"
    /\ pc' = "call"
    /\ FreshLocals
    /\ UNCHANGED <<stable, X, c, threshold, drops, macor, corrz, err, self, out>>

\* the caller runs the reducer on a fresh copy of its matrix at a higher
\* threshold
Fresh ==
    /\ pc = "return" /\ call = "first"
    /\ \E t \in Thresholds : t > threshold /\ threshold' = t
    /\ first' = [drops |-> drops, threshold |-> threshold]
    /\ c' = X
    /\ call' = "fresh"
    /\ pc' = "call"
    /\ FreshLocals
    /\ UNCHANGED <<stable, X, drops, macor, corrz, err, self, out>>

\* ------------------------------------------ MulticollinearityFilterer
\* DataFrame.drop(names, axis=1) on the columns of a table
DropColumns(cols, names) == SelectSeq(cols, LAMBDA e : e \notin ToSet(names))

\* lines 434/437/469: X if as_df else X.as_matrix()
Kind(as_df) == IF as_df THEN "DataFrame" ELSE "ndarray"

\* lines 465-469: what transform hands back; an empty drop_ stands for None
TransformOut(cols, drop, as_df) ==
    IF drop = <<>> THEN [kind |-> "DataFrame", columns |-> cols]
    ELSE [kind |-> Kind(as_df), columns |-> DropColumns(cols, drop)]

\* lines 427-437: fit_transform after its call of filter_collinearity
FitTransform ==
    /\ pc = "return" /\ call = "first"
    /\ \E as_df \in BOOLEAN :
          /\ self' = [fitted |-> TRUE, as_df |-> as_df, drop_ |-> drops]
          /\ out' = IF drops = <<>>
                    THEN [kind |-> Kind(as_df), columns |-> X.columns]
                    ELSE [kind |-> Kind(as_df),
                          columns |-> DropColumns(X.columns, drops)]
    /\ pc' = "fitted"
    /\ UNCHANGED <<stable, X, c, threshold, drops, macor, corrz, locals, err, call, first>>

\* lines 460-469: transform of a table with the fitted columns
Transform ==
    /\ pc = "fitted" /\ self.fitted
    /\ out' = TransformOut(X.columns, self.drop_, self.as_df)
    /\ pc' = "transformed"
    /\ UNCHANGED <<stable, X, c, threshold, drops, macor, corrz, locals, err, call,
                   first, self>>

Next ==
    \/ Call
    \/ While
    \/ ForExhausted
    \/ ForKeyError
    \/ ForIndexError
    \/ ForContinue
    \/ ForOtherKeyError
    \/ ForDrop
    \/ Rerun
    \/ Fresh
    \/ FitTransform
    \/ Transform

Spec == Init /\ [][Next]_vars

\* the interpreter always takes the next step of a running call
FairSpec == Spec /\ WF_vars(Next)

\* ------------------------------------------------------------ properties
\* the input is a square matrix with the same keys on both axes
SquareInput == X.index = X.columns

\* the mean absolute correlation of f over the working matrix df, self
\* excluded, nulls left out of numerator and denominator: <<sum, count>>
RECURSIVE SumOver(_, _, _)
SumOver(df, f, S) ==
    IF S = {} THEN <<0, 0>>
    ELSE LET g == CHOOSE e \in S : TRUE
             r == SumOver(df, f, S \ {g})
         IN IF df.data[<<g, f>>] = NaN THEN r
            ELSE <<r[1] + df.data[<<g, f>>], r[2] + 1>>

MAC(df, f) == SumOver(df, f, ToSet(df.index) \ {f})

\* C1: when filter_collinearity returns for a square symmetric matrix of at
\* least two features, no two distinct retained features have a non-null
\* correlation >= threshold.
C1_NoRetainedPairAtThreshold ==
    (pc = "return" /\ SquareInput /\ Len(X.columns) >= 2) =>
        \A a, b \in ToSet(c.columns) :
            a # b => (IsNull(c.data[<<a, b>>]) \/ c.data[<<a, b>>] < threshold)

\* C2: in every elimination step on a pair whose two means are non-null, the
\* feature removed is the pair member with the larger mean absolute
\* correlation over the working matrix as it stood, and the value appended
\* to macs and stored in the record is the removed feature's own mean.
C2_Step ==
    (pc = "for" /\ Len(drops') = Len(drops) + 1) =>
        LET d == Last(drops')
            r == Last(corrz')
            s == r.feature_y
        IN ({d, s} \subseteq ToSet(c.columns) /\ MAC(c, d)[2] > 0 /\ MAC(c, s)[2] > 0) =>
              /\ d # s
              /\ c.columns[i] \in {d, s}
              /\ ~MeanGt(MAC(c, s), MAC(c, d))
              /\ MeanEq(Last(macor'), MAC(c, d))
              /\ MeanEq(r.mac, MAC(c, d))
              /\ d \notin ToSet(c'.columns) /\ d \notin ToSet(c'.index)

C2_RemovedHasLargerMean == [][C2_Step]_vars

\* C2 witness: an elimination has just happened on a pair with two different
\* non-null means, and the recorded mac is the removed feature's
C2_Witness ==
    /\ pc = "break" /\ SquareInput
    /\ ~NullMean(mn_1) /\ ~NullMean(mn_2) /\ ~MeanEq(mn_1, mn_2)
    /\ Last(drops) = drop_nm
    /\ MeanEq(Last(macor), IF drop_nm = nm THEN mn_1 ELSE mn_2)

\* a call on a square matrix has started
SquareCall == pc = "call" /\ c.index = c.columns

\* C3: for every square matrix, with zero features or one included, and every
\* threshold, filter_collinearity eventually returns its triple.
C3_Terminates == SquareCall ~> (pc = "return")

\* the pair of the elimination just made had two equal non-null means
TieBreak ==
    /\ pc = "break"
    /\ ~NullMean(mn_1) /\ ~NullMean(mn_2) /\ MeanEq(mn_1, mn_2)

\* C4 as stated: on a violating pair (nm, other) with exactly equal means,
\* the feature dropped is nm, the one being visited.
C4_TieDropsVisited == TieBreak => Last(drops) = nm

\* C4 amended: on a violating pair (nm, other) with exactly equal means, the
\* feature dropped is other, the partner, and nm stays.
C4_TieDropsOther ==
    TieBreak => /\ Last(drops) = other_col_nm
                /\ other_col_nm # nm
                /\ Last(corrz).feature_y = nm
                /\ nm \in ToSet(c.columns)

C4_Witness == TieBreak /\ SquareInput /\ Last(drops) = other_col_nm

\* the second call, on a fresh copy at a higher threshold, has returned
FreshReturned == pc = "return" /\ call = "fresh" /\ SquareInput

\* C5 as stated: for t1 < t2 the set dropped at t1 is a superset of the set
\* dropped at t2.
C5_DropSuperset == FreshReturned => ToSet(drops) \subseteq ToSet(first.drops)

\* C5 amended: for t1 < t2, if anything is dropped at t2 then something is
\* dropped at t1 (not necessarily the same features).
C5_DropsSomething == FreshReturned => (drops # <<>> => first.drops # <<>>)

C5_Witness ==
    /\ FreshReturned /\ drops # <<>> /\ first.drops # <<>>
    /\ first.threshold < threshold

\* C6: running filter_collinearity again with the same threshold on the
\* matrix the first call left returns an empty drop list, empty macs and
\* empty records, and removes nothing further.
C6_RerunDropsNothing ==
    call = "again" =>
        /\ pc # "raised"
        /\ threshold = first.threshold
        /\ ToSet(c.columns) = ToSet(X.columns) \ ToSet(first.drops)
        /\ c.index = c.columns
        /\ pc # "call" => (drops = <<>> /\ macor = <<>> /\ corrz = <<>>)

C6_Witness ==
    /\ call = "again" /\ pc = "return" /\ first.drops # <<>>
    /\ drops = <<>> /\ Len(c.columns) = Len(X.columns) - Len(first.drops)
    /\ Len(c.columns) >= 3

\* C7: dropped, macs and records always have the same length, records[k]
\* names dropped[k] and carries macs[k], each name of dropped left the
\* working matrix and appears once, and dropped grows only at its end, by
\* the feature that leaves the matrix in that step.
C7_Aligned ==
    /\ Len(drops) = Len(macor) /\ Len(macor) = Len(corrz)
    /\ \A k \in 1..Len(drops) :
          /\ corrz[k].feature_x = drops[k]
          /\ corrz[k].mac = macor[k]
          /\ corrz[k].feature_y # drops[k]
    /\ \A k, l \in 1..Len(drops) : drops[k] = drops[l] => k = l
    /\ pc # "call" =>
          \A k \in 1..Len(drops) :
              /\ drops[k] \in ToSet(X.columns)
              /\ drops[k] \notin ToSet(c.columns) /\ drops[k] \notin ToSet(c.index)

C7_Order ==
    \/ drops' = drops /\ (pc # "for" => c' = c \/ pc' = "call")
    \/ pc = "call" /\ drops' = <<>>
    \/ /\ pc = "for" /\ Len(drops') = Len(drops) + 1
       /\ \A k \in 1..Len(drops) : drops'[k] = drops[k]
       /\ Last(drops') \in ToSet(c.columns)
       /\ c'.columns = Without(c.columns, Last(drops'))
       /\ c'.index = Without(c.index, Last(drops'))

C7_AlignedInOrder == []C7_Aligned /\ [][C7_Order]_vars

C7_Witness ==
    /\ pc = "return" /\ Len(drops) >= 2 /\ Len(corrz) = Len(drops)
    /\ corrz[1].feature_x = drops[1] /\ corrz[1].mac = macor[1]
    /\ Last(corrz).feature_x = Last(drops) /\ Last(corrz).mac = Last(macor)

\* C8: transform returns a table when as_df is true and a raw array when it
\* is false, in every fitted state, the empty drop list included, and the
\* output lacks exactly the columns of the fitted drop list.
C8_TransformKind ==
    pc = "transformed" =>
        /\ out.kind = (IF self.as_df THEN "DataFrame" ELSE "ndarray")
        /\ ToSet(out.columns) = ToSet(X.columns) \ ToSet(self.drop_)

\* C9 as stated: when the row-key set differs from the column-key set the
\* call fails with the shape error before anything is removed and returns
\* no partial result.
C9_KeySetsShapeError ==
    ToSet(X.index) # ToSet(X.columns) =>
        /\ pc \in {"call", "raised"}
        /\ pc = "raised" => err = "ValueError"
        /\ c = X

\* C9 amended: when the number of rows differs from the number of columns
\* the call fails with the shape error before anything is removed and
\* returns no partial result.
C9_DimensionsShapeError ==
    Len(X.index) # Len(X.columns) =>
        /\ pc \in {"call", "raised"}
        /\ pc = "raised" => err = "ValueError"
        /\ c = X
        /\ drops = <<>> /\ macor = <<>> /\ corrz = <<>>

C9_Witness ==
    /\ Len(X.index) # Len(X.columns) /\ Len(X.columns) >= 2
    /\ pc = "raised" /\ err = "ValueError" /\ c = X

\* the features of the input whose row is entirely null
NullRows ==
    {f \in ToSet(X.columns) :
        /\ Len(X.columns) >= 2
        /\ \A g \in ToSet(X.index) \ {f} : IsNull(X.data[<<g, f>>])}

\* C10: in a symmetric matrix a feature whose row is entirely null never
\* triggers an elimination, is never the partner of a violating pair, and is
\* retained when filter_collinearity returns.
C10_NullRowSurvives ==
    SquareInput =>
        \A f \in NullRows :
            /\ f \in ToSet(c.columns) /\ f \in ToSet(c.index)
            /\ pc # "call" =>
                  \A k \in 1..Len(corrz) :
                      corrz[k].feature_x # f /\ corrz[k].feature_y # f
            /\ pc = "break" => (nm # f /\ other_col_nm # f)

C10_Witness ==
    /\ SquareInput /\ pc = "return" /\ NullRows # {}
    /\ drops # <<>> /\ NullRows \subseteq ToSet(c.columns)
====
